---- MODULE Spec2Model ----
(***************************************************************************)
(* A model of src/src/index.ts: the photo resolver, the employee row       *)
(* mapper, the master data grouper, the filter utilities, the two request  *)
(* handlers and the client fetch facade.                                   *)
(*                                                                         *)
(* JavaScript values are tagged records [t, v]: t names the type, v holds  *)
(* the payload.  A string is the sequence of its characters, so that       *)
(* split, trim and concatenation are computed and not assumed.             *)
(***************************************************************************)
EXTENDS Integers, Sequences, FiniteSets, TLC

VARIABLES
    files,        \* res.data.files of the folder listing (a JS value)
    photos,       \* the Map<string, string> built by listFilesInFolder
    key,          \* the key handed to getPhotoCdn
    url,          \* what getPhotoCdn returned
    values,       \* response.data.values of the spreadsheet call (a JS value)
    employees,    \* what the row mapping of getAllEmployees returned
    masterData,   \* what getMasterDataSource returned
    step,         \* position of the computation under study
    apiEmployees, \* filterEmployee: the records handed in
    categoryKey,  \* filterEmployee: the field name
    filterValue,  \* filterEmployee: the value looked for
    filtered,     \* filterEmployee: what it returned
    endpoint,     \* the handler serving the request
    reqHeader,    \* req.headers['x-secret-key']
    reqQuery,     \* req.query['x-secret-key']
    apiSecret,    \* process.env.API_SECRET_KEY
    pc,           \* position of the handler
    calls,        \* the data-source calls issued, in order
    responses,    \* the responses sent on res, in order
    listing,      \* state of the folder-listing call
    sheet,        \* state of the spreadsheet-values call
    fetches,      \* fetchApis: state of each of the two requests
    cpc,          \* fetchApis: position
    parsed,       \* fetchApis: the bodies handleResponse returned so far
    fetched       \* fetchApis: what it returned

filterVars == <<apiEmployees, categoryKey, filterValue, filtered>>
serverVars ==
    <<endpoint, reqHeader, reqQuery, apiSecret, pc, calls, responses, listing,
      sheet>>
clientVars == <<fetches, cpc, parsed, fetched>>

vars ==
    <<files, photos, key, url, values, employees, masterData, step,
      filterVars, serverVars, clientVars>>

-----------------------------------------------------------------------------
(* JavaScript values *)

Undef == [t |-> "undef", v |-> <<>>]
Null == [t |-> "null", v |-> <<>>]
Str(s) == [t |-> "str", v |-> s]
Arr(a) == [t |-> "arr", v |-> a]

\* ToBoolean: undefined, null and the empty string are falsy; arrays are truthy.
Truthy(x) == IF x.t = "str" THEN x.v # <<>> ELSE x.t = "arr"

\* Strict equality (===) of two values; arrays are compared by identity in
\* JavaScript and no array is ever compared with itself here.
StrictEq(x, y) == x.t = y.t /\ x.t # "arr" /\ x.v = y.v

\* a || b
OrElse(x, y) == IF Truthy(x) THEN x ELSE y

\* arr[i] for a 1-based index: undefined past the end.
At(a, i) == IF i \in 1..Len(a) THEN a[i] ELSE Undef

\* obj[k] = x
Put(obj, k, x) == [f \in DOMAIN obj \cup {k} |-> IF f = k THEN x ELSE obj[f]]

\* obj[k]
Get(obj, k) == IF k \in DOMAIN obj THEN obj[k] ELSE Undef

EmptyObject == [f \in {} |-> Undef]

-----------------------------------------------------------------------------
(* String.prototype.split(sep) with a one-character separator, and trim *)

FirstIndexOf(s, c) ==
    IF \E i \in 1..Len(s) : s[i] = c
    THEN CHOOSE i \in 1..Len(s) : s[i] = c /\ \A j \in 1..(i - 1) : s[j] # c
    ELSE 0

RECURSIVE Split(_, _)
Split(s, sep) ==
    LET i == FirstIndexOf(s, sep)
    IN  IF i = 0 THEN <<s>>
        ELSE <<SubSeq(s, 1, i - 1)>> \o Split(SubSeq(s, i + 1, Len(s)), sep)

IsWhiteSpace(c) == c = " "

RECURSIVE TrimStart(_)
TrimStart(s) ==
    IF s # <<>> /\ IsWhiteSpace(Head(s)) THEN TrimStart(Tail(s)) ELSE s

RECURSIVE TrimEnd(_)
TrimEnd(s) ==
    IF s # <<>> /\ IsWhiteSpace(s[Len(s)])
    THEN TrimEnd(SubSeq(s, 1, Len(s) - 1)) ELSE s

Trim(s) == TrimEnd(TrimStart(s))

-----------------------------------------------------------------------------
(* Photo resolver *)

\* process.env.DRIVE_PHOTO_HOST
DrivePhotoHost == <<"H">>

\* photos.get(key): the key is a JS value, the stored keys are strings.
MapGet(m, k) == IF k.t = "str" /\ k.v \in DOMAIN m THEN Str(m[k.v]) ELSE Undef

GetPhotoCdn(m, k) ==
    LET photoId == MapGet(m, k)
    IN  IF Truthy(photoId) THEN Str(DrivePhotoHost \o <<"/">> \o photoId.v)
        ELSE Str(<<>>)

\* Variant of SetFile that keeps the first identifier listed under a name.
SetFileFirstWins(m, file) ==
    IF Truthy(file.name) /\ Truthy(file.id) /\ file.name.v \notin DOMAIN m
    THEN [n \in DOMAIN m \cup {file.name.v} |->
            IF n = file.name.v THEN file.id.v ELSE m[n]]
    ELSE m

\* fileMap.set(file.name, file.id) when both are truthy
SetFile(m, file) ==
    IF Truthy(file.name) /\ Truthy(file.id)
    THEN [n \in DOMAIN m \cup {file.name.v} |->
            IF n = file.name.v THEN file.id.v ELSE m[n]]
    ELSE m

EmptyMap == [n \in {} |-> <<>>]

RECURSIVE ForEachFile(_, _)
ForEachFile(m, fs) ==
    IF fs = <<>> THEN m ELSE ForEachFile(SetFile(m, Head(fs)), Tail(fs))

\* The map listFilesInFolder returns for a listing result res.data.files.
FileMap(fl) == IF fl.t = "arr" THEN ForEachFile(EmptyMap, fl.v) ELSE EmptyMap

-----------------------------------------------------------------------------
(* Outcome of a function body: a returned value or a thrown error *)

Return(x) == [kind |-> "return", val |-> x]
Throw == [kind |-> "throw", val |-> <<>>]

-----------------------------------------------------------------------------
(* Row mapper: getAllEmployees, lines 136-173 *)

\* row[index] for the 0-based index of the source; cells are strings.
Cell(row, index) ==
    IF index + 1 \in 1..Len(row.v) THEN Str(row.v[index + 1]) ELSE Undef

\* s.split(sep) as an array of strings
SplitStr(s, sep) ==
    LET parts == Split(s, sep) IN [i \in 1..Len(parts) |-> Str(parts[i])]

\* row[index]?.split(',')?.map(it => it.trim()) ?? []
SplitList(cell) ==
    IF cell.t = "undef" THEN Arr(<<>>)
    ELSE LET parts == Split(cell.v, ",")
         IN  Arr([i \in 1..Len(parts) |-> Str(Trim(parts[i]))])

\* One pass of the reducer: the switch on the header name.
AssignHeader(employee, header, cell, m) ==
    CASE header = "photo" ->
            Put(employee, header, GetPhotoCdn(m, cell))
      [] header \in {"projects", "club"} ->
            Put(employee, header, SplitList(cell))
      [] header = "dob" ->
            LET dobValue == OrElse(cell, Str(<<>>))
                parts == SplitStr(dobValue.v, "/")
                month == At(parts, 1)
                year == At(parts, 3)
            IN  Put(Put(Put(employee, "monthofbirth", month),
                        "yearofbirth", year), header, dobValue)
      [] header = "date_joined" ->
            LET dateJoined == OrElse(cell, Str(<<>>))
                parts == SplitStr(dateJoined.v, "/")
                yearJoined == At(parts, 3)
            IN  Put(Put(employee, "joiningyear", yearJoined), header, dateJoined)
      [] OTHER ->
            Put(employee, header, OrElse(cell, Str(<<>>)))

\* Variant of Reduce that stops at the end of the row, so that a header
\* without a cell gets no field.
RECURSIVE ReduceOverCells(_, _, _, _, _)
ReduceOverCells(employee, headers, index, row, m) ==
    IF index >= Len(headers) \/ index >= Len(row.v) THEN employee
    ELSE ReduceOverCells(
            AssignHeader(employee, headers[index + 1], Cell(row, index), m),
            headers, index + 1, row, m)

\* headers.reduce(..., {}) over the headers from position index on
RECURSIVE Reduce(_, _, _, _, _)
Reduce(employee, headers, index, row, m) ==
    IF index >= Len(headers) THEN employee
    ELSE Reduce(AssignHeader(employee, headers[index + 1], Cell(row, index), m),
                headers, index + 1, row, m)

\* Indexing a row that is not an array (null) throws, and so does reduce on
\* a header row that is not an array; with no header the row is never read.
RowThrows(headers, row) ==
    headers.t # "arr" \/ (headers.v # <<>> /\ row.t # "arr")

MapRows(rows, m) ==
    IF ~Truthy(rows) \/ Len(rows.v) = 0 THEN Return(<<>>)
    ELSE LET headers == Head(rows.v)
             dataRows == Tail(rows.v)
         IN  IF \E i \in 1..Len(dataRows) : RowThrows(headers, dataRows[i])
             THEN Throw
             ELSE Return([i \in 1..Len(dataRows) |->
                            Reduce(EmptyObject, headers.v, 0, dataRows[i], m)])

-----------------------------------------------------------------------------
(* Master data grouper: getMasterDataSource, lines 201-240 *)

\* The eleven groups with the 0-based columns the source reads for each:
\* the column tested and stored as title (key for category), and the photo.
Groups ==
    [category |-> [label |-> 0, photo |-> 2],
     country |-> [label |-> 4, photo |-> 5],
     role |-> [label |-> 7, photo |-> 8],
     birthplace |-> [label |-> 10, photo |-> 11],
     yearofbirth |-> [label |-> 13, photo |-> 14],
     monthofbirth |-> [label |-> 16, photo |-> 17],
     project |-> [label |-> 19, photo |-> 20],
     club |-> [label |-> 22, photo |-> 23],
     gender |-> [label |-> 25, photo |-> 26],
     joiningyear |-> [label |-> 28, photo |-> 29],
     office |-> [label |-> 31, photo |-> 32]]

GroupNames == DOMAIN Groups

\* The object pushed for group g of a row.
Entry(g, row, m) ==
    IF g = "category"
    THEN [key |-> Cell(row, 0), title |-> Cell(row, 1),
          photo |-> GetPhotoCdn(m, Cell(row, 2))]
    ELSE [title |-> Cell(row, Groups[g].label),
          photo |-> GetPhotoCdn(m, Cell(row, Groups[g].photo))]

\* The eleven conditional pushes for one row.
PushRow(result, row, m) ==
    [g \in GroupNames |->
        IF Truthy(Cell(row, Groups[g].label))
        THEN Append(result[g], Entry(g, row, m)) ELSE result[g]]

RECURSIVE ForEachRow(_, _, _)
ForEachRow(result, rs, m) ==
    IF rs = <<>> THEN result
    ELSE ForEachRow(PushRow(result, Head(rs), m), Tail(rs), m)

EmptyMasterData == [g \in GroupNames |-> <<>>]

\* Variant of SliceTwo that skips one row only.
SliceOne(rs) == SubSeq(rs, 2, Len(rs))

\* rows.slice(2)
SliceTwo(rs) == SubSeq(rs, 3, Len(rs))

BuildMasterData(rows, m) ==
    IF ~Truthy(rows) \/ Len(rows.v) <= 1 THEN Return(EmptyMasterData)
    ELSE LET dataRows == SliceTwo(rows.v)
         IN  IF \E i \in 1..Len(dataRows) : dataRows[i].t # "arr"
             THEN Throw
             ELSE Return(ForEachRow(EmptyMasterData, dataRows, m))

-----------------------------------------------------------------------------
(* Filter utilities: filterEmployee *)

\* x?.includes(val): undefined for undefined or null, Array.prototype.includes
\* for an array, String.prototype.includes (substring) for a string.
Includes(x, val) ==
    CASE x.t = "arr" -> \E i \in 1..Len(x.v) : StrictEq(x.v[i], val)
      [] x.t = "str" ->
            /\ val.t = "str"
            /\ \E i \in 0..(Len(x.v) - Len(val.v)) :
                SubSeq(x.v, i + 1, i + Len(val.v)) = val.v
      [] OTHER -> FALSE

\* Variant of FilterEmployee that compares every field as a scalar.
FilterEmployeeScalarOnly(k, val, es) ==
    LET Equal(it) == StrictEq(Get(it, k), Str(val))
    IN  SelectSeq(es, Equal)

\* filterEmployee: the switch on the key and the two filters
FilterEmployee(k, val, es) ==
    LET Contains(it) == Includes(Get(it, k), Str(val))
        Equal(it) == StrictEq(Get(it, k), Str(val))
    IN  IF k \in {"club", "projects"} THEN SelectSeq(es, Contains)
        ELSE SelectSeq(es, Equal)

-----------------------------------------------------------------------------
(* Bounds and input sets *)

MaxEmployees == 2

MaxFiles == 2
MaxHeaders == 2
MaxRows == 2
MaxRowLen == 1
MaxCellLen == 5
MaxGridRows == 4

BoundedSeq(S, n) == UNION {[1..k -> S] : k \in 0..n}

NotRun == [kind |-> "none", val |-> <<>>]

\* Entries of a folder listing: name and id may be missing, null or empty.
FileNames == {Undef, Null, Str(<<>>), Str(<<"a">>), Str(<<"b">>)}
FileIds == {Undef, Str(<<>>), Str(<<"1">>), Str(<<"2">>)}
FileObjects == [name : FileNames, id : FileIds]
Listings == {Undef} \cup {Arr(fs) : fs \in BoundedSeq(FileObjects, MaxFiles)}
PhotoKeys == {Undef, Str(<<>>), Str(<<"a">>), Str(<<"b">>), Str(<<"c">>)}

\* The listing used when the sheet is the input under study.
PhotoFolder == Arr(<<[name |-> Str(<<"a">>), id |-> Str(<<"1">>)]>>)

HeaderNames ==
    {"name", "photo", "projects", "club", "dob", "date_joined", "yearofbirth"}
Chars == {"a", "/", ",", " "}
RowCells == {<<"a">>}

\* Sheets of several rows over short cells.
RowSheets ==
    {Arr(<<Arr(h)>> \o rs) :
        h \in BoundedSeq(HeaderNames, MaxHeaders),
        rs \in BoundedSeq({Arr(c) : c \in BoundedSeq(RowCells, MaxRowLen)},
                          MaxRows)}

\* Sheets of one header and one cell, the cell any string over Chars.
CellSheets ==
    {Arr(<<Arr(<<h>>), Arr(<<c>>)>>) :
        h \in HeaderNames, c \in BoundedSeq(Chars, MaxCellLen)}

\* A sheet without values, and one with no rows at all.
NoSheets == {Undef, Arr(<<>>)}

\* A grid row of len columns whose groups in labelled carry the label text
\* and the photo name "a"; every other cell is empty.
GridRow(len, labelled, text) ==
    Arr([c \in 1..len |->
            IF \E g \in labelled : Groups[g].label = c - 1 THEN text
            ELSE IF \E g \in labelled : Groups[g].photo = c - 1 THEN <<"a">>
            ELSE <<>>])

GridRows ==
    {GridRow(0, {}, <<"x">>),
     GridRow(33, GroupNames, <<"x">>),
     GridRow(33, {"country"}, <<"y">>),
     GridRow(5, {"category", "country"}, <<"x">>),
     GridRow(33, {"category", "office"}, <<"y">>),
     GridRow(32, {"role", "office"}, <<"x">>)}

MasterGrids == {Undef} \cup {Arr(g) : g \in BoundedSeq(GridRows, MaxGridRows)}

\* Employee records as the client holds them: gender a string, club a list,
\* either possibly missing.
Genders == {Str(<<"F">>), Str(<<"f">>)}
Clubs ==
    {Arr(<<>>), Arr(<<Str(<<"S">>)>>), Arr(<<Str(<<"C">>), Str(<<"S">>)>>),
     Arr(<<Str(<<"F">>)>>)}
EmployeePool ==
    {EmptyObject}
        \cup {Put(EmptyObject, "gender", g) : g \in Genders}
        \cup {Put(EmptyObject, "club", c) : c \in Clubs}
        \cup {Put(Put(EmptyObject, "gender", g), "club", c) :
                g \in Genders, c \in Clubs}
FilterKeys == {"club", "projects", "gender", "name"}
FilterValues == {<<"F">>, <<"f">>, <<"S">>}

\* The parts of the state a specification does not exercise.
IdleFilter ==
    /\ apiEmployees = <<>>
    /\ categoryKey = ""
    /\ filterValue = <<>>
    /\ filtered = <<>>

IdleServer ==
    /\ endpoint = "none"
    /\ reqHeader = Undef
    /\ reqQuery = Undef
    /\ apiSecret = Undef
    /\ pc = "idle"
    /\ calls = <<>>
    /\ responses = <<>>
    /\ listing = "idle"
    /\ sheet = "idle"

IdleClient ==
    /\ fetches = <<>>
    /\ cpc = "idle"
    /\ parsed = <<>>
    /\ fetched = NotRun

-----------------------------------------------------------------------------
(* Photo resolver on its own: build the lookup, then resolve one key *)

InitPhoto ==
    /\ IdleFilter /\ IdleServer /\ IdleClient
    /\ files \in Listings
    /\ photos = EmptyMap
    /\ key = Undef
    /\ url = Undef
    /\ values = Undef
    /\ employees = NotRun
    /\ masterData = NotRun
    /\ step = "start"

ListFilesInFolder ==
    /\ step = "start"
    /\ photos' = FileMap(files)
    /\ step' = "listed"
    /\ UNCHANGED <<files, key, url, values, employees, masterData,
                   filterVars, serverVars, clientVars>>

ResolvePhoto ==
    /\ step = "listed"
    /\ \E k \in PhotoKeys :
        /\ key' = k
        /\ url' = GetPhotoCdn(photos, k)
    /\ step' = "resolved"
    /\ UNCHANGED <<files, photos, values, employees, masterData,
                   filterVars, serverVars, clientVars>>

NextPhoto == ListFilesInFolder \/ ResolvePhoto

SpecPhoto == InitPhoto /\ [][NextPhoto]_vars

-----------------------------------------------------------------------------
(* getAllEmployees with both calls succeeding *)

InitMapper ==
    /\ IdleFilter /\ IdleServer /\ IdleClient
    /\ files = PhotoFolder
    /\ photos = EmptyMap
    /\ key = Undef
    /\ url = Undef
    /\ \/ values \in NoSheets
       \/ values \in RowSheets
       \/ values \in CellSheets
    /\ employees = NotRun
    /\ masterData = NotRun
    /\ step = "start"

GetAllEmployees ==
    /\ step = "start"
    /\ photos' = FileMap(files)
    /\ employees' = MapRows(values, photos')
    /\ step' = "done"
    /\ UNCHANGED <<files, key, url, values, masterData,
                   filterVars, serverVars, clientVars>>

NextMapper == GetAllEmployees

SpecMapper == InitMapper /\ [][NextMapper]_vars

-----------------------------------------------------------------------------
(* getMasterDataSource with both calls succeeding *)

InitMaster ==
    /\ IdleFilter /\ IdleServer /\ IdleClient
    /\ files = PhotoFolder
    /\ photos = EmptyMap
    /\ key = Undef
    /\ url = Undef
    /\ values \in MasterGrids
    /\ employees = NotRun
    /\ masterData = NotRun
    /\ step = "start"

GetMasterDataSource ==
    /\ step = "start"
    /\ photos' = FileMap(files)
    /\ masterData' = BuildMasterData(values, photos')
    /\ step' = "done"
    /\ UNCHANGED <<files, key, url, values, employees,
                   filterVars, serverVars, clientVars>>

NextMaster == GetMasterDataSource

SpecMaster == InitMaster /\ [][NextMaster]_vars

-----------------------------------------------------------------------------
(* Properties of the photo resolver *)

\* Positions of the listed entries that carry both a name and an identifier.
ListedValid ==
    IF files.t = "arr"
    THEN {i \in 1..Len(files.v) :
            Truthy(files.v[i].name) /\ Truthy(files.v[i].id)}
    ELSE {}

\* Positions of the valid entries named by the key.
ListedAs(k) ==
    {i \in ListedValid : k.t = "str" /\ files.v[i].name.v = k.v}

LastOf(S) == CHOOSE i \in S : \A j \in S : j <= i

\* C7: the lookup holds exactly the names of the listed entries that carry a
\* name and an identifier; getPhotoCdn returns the empty string for a key that
\* is empty, undefined or not a name of the lookup, and otherwise the host,
\* "/" and the identifier of the last listed entry with that name.
PhotoCdnResolves ==
    /\ step \in {"listed", "resolved"} =>
        DOMAIN photos = {files.v[i].name.v : i \in ListedValid}
    /\ step = "resolved" =>
        IF key.t # "str" \/ key.v = <<>> \/ key.v \notin DOMAIN photos
        THEN url = Str(<<>>)
        ELSE /\ ListedAs(key) # {}
             /\ url = Str(DrivePhotoHost \o <<"/">>
                            \o files.v[LastOf(ListedAs(key))].id.v)

\* A key listed twice under different identifiers, among entries without a
\* name, resolved to the second identifier.
PhotoCdnResolvesWitness ==
    /\ step = "resolved"
    /\ Cardinality(ListedAs(key)) = 2
    /\ files.v[1].id # files.v[2].id
    /\ url = Str(DrivePhotoHost \o <<"/">> \o files.v[2].id.v)

-----------------------------------------------------------------------------
(* Properties of the row mapper *)

SheetHeaders == values.v[1].v
SheetRow(i) == values.v[i + 1]
HasDataRows == Truthy(values) /\ Len(values.v) >= 2

\* The cell of a row under the 1-based header position j, "" when missing.
RawOrEmpty(row, j) == IF j \in 1..Len(row.v) THEN Str(row.v[j]) ELSE Str(<<>>)

\* Position j holds the last header of its name.
LastHeader(j) ==
    \A k \in (j + 1)..Len(SheetHeaders) : SheetHeaders[k] # SheetHeaders[j]

\* C4: the mapping returns one record per data row, in row order, each with
\* every header name as a field and its copied fields taken from its own
\* row; no rows, or the header row alone, give the empty sequence, and no
\* error is raised.
OneRecordPerRow ==
    step = "done" =>
        /\ employees.kind = "return"
        /\ IF ~HasDataRows THEN employees.val = <<>>
           ELSE /\ Len(employees.val) = Len(values.v) - 1
                /\ \A i \in 1..Len(employees.val) :
                    \A j \in 1..Len(SheetHeaders) :
                        /\ SheetHeaders[j] \in DOMAIN employees.val[i]
                        /\ (SheetHeaders[j] \in {"name", "dob", "date_joined"}
                            /\ LastHeader(j)) =>
                                employees.val[i][SheetHeaders[j]]
                                    = RawOrEmpty(SheetRow(i), j)

\* Two rows of different content under two headers, the first row shorter
\* than the header row, mapped to two records.
OneRecordPerRowWitness ==
    /\ step = "done"
    /\ HasDataRows
    /\ Len(SheetHeaders) = 2
    /\ SheetHeaders[2] = "name"
    /\ Len(values.v) = 3
    /\ Len(SheetRow(1).v) < Len(SheetHeaders)
    /\ SheetRow(2).v = <<<<"a">>>>
    /\ Len(employees.val) = 2
    /\ employees.val[1] # employees.val[2]

CountOf(s, c) == Cardinality({i \in 1..Len(s) : s[i] = c})

\* The last position of header name h that no later header overwrites.
PositionsOf(h, overwriters) ==
    {j \in 1..Len(SheetHeaders) :
        /\ SheetHeaders[j] = h
        /\ \A k \in (j + 1)..Len(SheetHeaders) :
            SheetHeaders[k] \notin ({h} \cup overwriters)}

\* C5: under a dob header the record stores the raw cell ("" if absent),
\* monthofbirth the first and yearofbirth the third "/"-separated component,
\* both "" when the cell is absent, empty or lacks separators; joiningyear
\* is the third component of date_joined and "" when absent or malformed.
DerivedDateFields ==
    (step = "done" /\ employees.kind = "return" /\ HasDataRows) =>
        \A i \in 1..Len(employees.val) :
            LET rec == employees.val[i] IN
            /\ \A j \in PositionsOf("dob", {"yearofbirth", "monthofbirth"}) :
                LET raw == RawOrEmpty(SheetRow(i), j)
                    parts == Split(raw.v, "/")
                IN  /\ rec["dob"] = raw
                    /\ IF CountOf(raw.v, "/") < 2
                       THEN /\ StrictEq(rec["monthofbirth"], Str(<<>>))
                            /\ StrictEq(rec["yearofbirth"], Str(<<>>))
                       ELSE /\ StrictEq(rec["monthofbirth"], Str(parts[1]))
                            /\ StrictEq(rec["yearofbirth"], Str(parts[3]))
            /\ \A j \in PositionsOf("date_joined", {"joiningyear"}) :
                LET raw == RawOrEmpty(SheetRow(i), j)
                    parts == Split(raw.v, "/")
                IN  IF CountOf(raw.v, "/") < 2
                    THEN StrictEq(rec["joiningyear"], Str(<<>>))
                    ELSE StrictEq(rec["joiningyear"], Str(parts[3]))

\* C6: under a projects or club header the field is the cell split on ","
\* with each piece trimmed, and the empty sequence when the cell is the
\* empty string or absent.
SplitListFields ==
    (step = "done" /\ employees.kind = "return" /\ HasDataRows) =>
        \A i \in 1..Len(employees.val) :
            \A h \in {"projects", "club"} :
                \A j \in PositionsOf(h, {}) :
                    LET raw == RawOrEmpty(SheetRow(i), j)
                        parts == Split(raw.v, ",")
                        field == employees.val[i][h]
                    IN  /\ field.t = "arr"
                        /\ IF raw.v = <<>> THEN field.v = <<>>
                           ELSE field.v =
                                  [k \in 1..Len(parts) |-> Str(Trim(parts[k]))]

-----------------------------------------------------------------------------
(* Properties of the master data grouper *)

\* Positions of the grid rows, from the third on, whose label column for
\* group g is not empty.
Labelled(g) ==
    IF Truthy(values)
    THEN {i \in 3..Len(values.v) : Truthy(Cell(values.v[i], Groups[g].label))}
    ELSE {}

\* The k-th smallest member of a set of positions.
Nth(S, k) == CHOOSE i \in S : Cardinality({j \in S : j <= i}) = k

\* C8: all eleven keys are present and each group's list holds, in row
\* order, one entry for each row from the third on whose label column for
\* that group is not empty, whatever the other groups of the row hold; the
\* first two rows never contribute.
GroupsFollowLabels ==
    step = "done" =>
        /\ masterData.kind = "return"
        /\ DOMAIN masterData.val =
            {"category", "country", "role", "birthplace", "yearofbirth",
             "monthofbirth", "project", "club", "gender", "joiningyear",
             "office"}
        /\ \A g \in DOMAIN masterData.val :
            /\ Len(masterData.val[g]) = Cardinality(Labelled(g))
            /\ \A k \in 1..Len(masterData.val[g]) :
                LET row == values.v[Nth(Labelled(g), k)]
                    entry == masterData.val[g][k]
                IN  /\ entry.photo
                        = GetPhotoCdn(photos, Cell(row, Groups[g].photo))
                    /\ IF g = "category"
                       THEN entry.key = Cell(row, 0) /\ entry.title = Cell(row, 1)
                       ELSE entry.title = Cell(row, Groups[g].label)
        /\ (~Truthy(values) \/ Len(values.v) < 2) =>
            \A g \in DOMAIN masterData.val : masterData.val[g] = <<>>

\* Labelled first and second rows, then a row with empty column 0 and a
\* country label, then a fully labelled row: no category entry for the
\* third row, one country entry for each of the two data rows.
GroupsFollowLabelsWitness ==
    /\ step = "done"
    /\ Truthy(values)
    /\ Len(values.v) = 4
    /\ Truthy(Cell(values.v[1], 0))
    /\ Truthy(Cell(values.v[2], 0))
    /\ ~Truthy(Cell(values.v[3], 0))
    /\ Truthy(Cell(values.v[3], 4))
    /\ Truthy(Cell(values.v[4], 0))
    /\ Len(masterData.val["category"]) = 1
    /\ Len(masterData.val["country"]) = 2
    /\ masterData.val["country"][1].title = Str(<<"y">>)
    /\ masterData.val["country"][2].title = Str(<<"x">>)

-----------------------------------------------------------------------------
(* filterEmployee on records already fetched *)

IdleData ==
    /\ files = Undef
    /\ photos = EmptyMap
    /\ key = Undef
    /\ url = Undef
    /\ values = Undef
    /\ employees = NotRun
    /\ masterData = NotRun

InitFilter ==
    /\ IdleData /\ IdleServer /\ IdleClient
    /\ apiEmployees \in BoundedSeq(EmployeePool, MaxEmployees)
    /\ categoryKey = ""
    /\ filterValue = <<>>
    /\ filtered = <<>>
    /\ step = "start"

FilterEmployeeCall ==
    /\ step = "start"
    /\ \E k \in FilterKeys, val \in FilterValues :
        /\ categoryKey' = k
        /\ filterValue' = val
        /\ filtered' = FilterEmployee(k, val, apiEmployees)
    /\ step' = "filtered"
    /\ UNCHANGED <<files, photos, key, url, values, employees, masterData,
                   apiEmployees, serverVars, clientVars>>

NextFilter == FilterEmployeeCall

SpecFilter == InitFilter /\ [][NextFilter]_vars

\* The record has the field named by categoryKey and, for projects and club,
\* the field is a list with an element equal to filterValue; for any other
\* name the field is a string equal to filterValue.
Selected(rec) ==
    /\ categoryKey \in DOMAIN rec
    /\ IF categoryKey \in {"projects", "club"}
       THEN /\ rec[categoryKey].t = "arr"
            /\ \E i \in 1..Len(rec[categoryKey].v) :
                rec[categoryKey].v[i].v = filterValue
       ELSE /\ rec[categoryKey].t = "str"
            /\ rec[categoryKey].v = filterValue

SelectedPositions == {i \in 1..Len(apiEmployees) : Selected(apiEmployees[i])}

\* C9: filterEmployee returns, in the original order, exactly the records
\* selected by the field and value, and leaves its input as it was.
FilterSelects ==
    /\ [](step = "filtered" =>
            /\ Len(filtered) = Cardinality(SelectedPositions)
            /\ \A n \in 1..Len(filtered) :
                filtered[n] = apiEmployees[Nth(SelectedPositions, n)])
    /\ [][apiEmployees' = apiEmployees]_vars

\* Two records filtered by club, the first without the value (or without
\* the field), the second with it.
FilterSelectsWitness ==
    /\ step = "filtered"
    /\ categoryKey = "club"
    /\ Len(apiEmployees) = 2
    /\ SelectedPositions = {2}
    /\ filtered = <<apiEmployees[2]>>

-----------------------------------------------------------------------------
(* The request handlers: employeeAPI and masterDataAPI *)

\* Variant of SecretApi that falls back to the query parameter on any falsy
\* header (|| in place of ??).
SecretApiFalsyFallback(h, q) == IF Truthy(h) THEN h ELSE q

\* req.headers['x-secret-key'] ?? req.query['x-secret-key']
SecretApi(h, q) == IF h.t \in {"undef", "null"} THEN q ELSE h

Unauthorized ==
    [error_code |-> "unauthorized", error_message |-> "Invalid secret key"]

\* Variant of ErrorCode with one code for both handlers.
ErrorCodeShared(ep) == "00001"

\* The error_code of each handler's catch block.
ErrorCode(ep) == IF ep = "employee" THEN "00001" ELSE "00002"

InternalServerError(ep) ==
    [error_code |-> ErrorCode(ep), error_message |-> "Internal Server Error"]

\* res.status(status).json(body)
Send(status, body) ==
    responses' = Append(responses, [status |-> status, body |-> body])

\* The promise of getAllEmployees or getMasterDataSource, as the handler
\* awaits it.
Outcome == IF endpoint = "employee" THEN employees ELSE masterData

Settle(out) ==
    IF endpoint = "employee"
    THEN employees' = out /\ UNCHANGED masterData
    ELSE masterData' = out /\ UNCHANGED employees

\* What the server may receive from the two services.
ServerListings ==
    {Undef, PhotoFolder,
     Arr(<<[name |-> Str(<<"a">>), id |-> Undef],
           [name |-> Str(<<"b">>), id |-> Str(<<"2">>)]>>)}
ServerSheets ==
    {Undef, Arr(<<>>),
     Arr(<<Arr(<<"name", "photo">>)>>),
     Arr(<<Arr(<<"name", "photo">>), Arr(<<<<"a">>, <<"a">>>>)>>),
     Arr(<<Arr(<<"name", "dob">>), Arr(<<<<"a">>>>), Arr(<<>>)>>),
     Arr(<<Arr(<<>>), Null>>),
     Arr(<<Arr(<<"name">>), Arr(<<<<"a">>>>), Null>>),
     Arr(<<Null, Arr(<<<<"a">>>>)>>)}
ServerGrids ==
    {Undef,
     Arr(<<GridRow(33, GroupNames, <<"x">>)>>),
     Arr(<<GridRow(33, GroupNames, <<"x">>), Null>>),
     Arr(<<GridRow(33, GroupNames, <<"x">>), GridRow(0, {}, <<"x">>),
           GridRow(33, {"country"}, <<"y">>)>>),
     Arr(<<GridRow(33, GroupNames, <<"x">>), GridRow(0, {}, <<"x">>),
           GridRow(33, GroupNames, <<"x">>), Null>>)}
SecretHeaders == {Undef, Str(<<>>), Str(<<"k">>), Str(<<"x">>)}
SecretQueries == {Undef, Str(<<"k">>), Str(<<"x">>)}
SecretKeys == {Undef, Str(<<"k">>)}

InitServer ==
    /\ IdleData /\ IdleFilter /\ IdleClient
    /\ step = "server"
    /\ endpoint \in {"employee", "masterData"}
    /\ reqHeader \in SecretHeaders
    /\ reqQuery \in SecretQueries
    /\ apiSecret \in SecretKeys
    /\ pc = "request"
    /\ calls = <<>>
    /\ responses = <<>>
    /\ listing = "idle"
    /\ sheet = "idle"

\* validateSecretKey, and the handler's return when it fails
ValidateSecretKey ==
    /\ pc = "request"
    /\ IF ~StrictEq(SecretApi(reqHeader, reqQuery), apiSecret)
       THEN Send(401, Unauthorized) /\ pc' = "returned"
       ELSE pc' = "listFiles" /\ UNCHANGED responses
    /\ UNCHANGED <<files, photos, key, url, values, employees, masterData,
                   step, filterVars, endpoint, reqHeader, reqQuery, apiSecret,
                   calls, listing, sheet, clientVars>>

\* drive.files.list is called
IssueListFiles ==
    /\ pc = "listFiles"
    /\ calls' = Append(calls, "files.list")
    /\ listing' = "pending"
    /\ pc' = "awaitFiles"
    /\ UNCHANGED <<files, photos, key, url, values, employees, masterData,
                   step, filterVars, endpoint, reqHeader, reqQuery, apiSecret,
                   responses, sheet, clientVars>>

\* The listing resolves and listFilesInFolder builds and returns the map.
ListFilesResolves ==
    /\ pc = "awaitFiles"
    /\ \E fl \in ServerListings :
        /\ files' = fl
        /\ photos' = FileMap(fl)
    /\ listing' = "resolved"
    /\ pc' = "getValues"
    /\ UNCHANGED <<key, url, values, employees, masterData,
                   step, filterVars, endpoint, reqHeader, reqQuery, apiSecret,
                   calls, responses, sheet, clientVars>>

\* Variant of ListFilesRejects that swallows the rejection and goes on
\* with an empty lookup.
ListFilesRejectsSwallowed ==
    /\ pc = "awaitFiles"
    /\ listing' = "rejected"
    /\ pc' = "getValues"
    /\ UNCHANGED <<files, photos, key, url, values, employees, masterData,
                   step, filterVars, endpoint, reqHeader, reqQuery, apiSecret,
                   calls, responses, sheet, clientVars>>

\* The listing rejects: the await sits outside the try block, so the
\* function's promise rejects with it.
ListFilesRejects ==
    /\ pc = "awaitFiles"
    /\ listing' = "rejected"
    /\ Settle(Throw)
    /\ pc' = "settled"
    /\ UNCHANGED <<files, photos, key, url, values,
                   step, filterVars, endpoint, reqHeader, reqQuery, apiSecret,
                   calls, responses, sheet, clientVars>>

\* sheets.spreadsheets.values.get is called
IssueValuesGet ==
    /\ pc = "getValues"
    /\ calls' = Append(calls, "values.get")
    /\ sheet' = "pending"
    /\ pc' = "awaitValues"
    /\ UNCHANGED <<files, photos, key, url, values, employees, masterData,
                   step, filterVars, endpoint, reqHeader, reqQuery, apiSecret,
                   responses, listing, clientVars>>

\* The values resolve and the rows are transformed; an error thrown on the
\* way is logged and rethrown.
ValuesGetResolves ==
    /\ pc = "awaitValues"
    /\ \E vs \in IF endpoint = "employee" THEN ServerSheets ELSE ServerGrids :
        /\ values' = vs
        /\ Settle(IF endpoint = "employee" THEN MapRows(vs, photos)
                  ELSE BuildMasterData(vs, photos))
    /\ sheet' = "resolved"
    /\ pc' = "settled"
    /\ UNCHANGED <<files, photos, key, url,
                   step, filterVars, endpoint, reqHeader, reqQuery, apiSecret,
                   calls, responses, listing, clientVars>>

\* The values call rejects: logged and rethrown.
ValuesGetRejects ==
    /\ pc = "awaitValues"
    /\ sheet' = "rejected"
    /\ Settle(Throw)
    /\ pc' = "settled"
    /\ UNCHANGED <<files, photos, key, url, values,
                   step, filterVars, endpoint, reqHeader, reqQuery, apiSecret,
                   calls, responses, listing, clientVars>>

\* The handler resumes from its await: 200 with the data, or the catch
\* block's 500.
Respond ==
    /\ pc = "settled"
    /\ IF Outcome.kind = "return" THEN Send(200, Outcome.val)
       ELSE Send(500, InternalServerError(endpoint))
    /\ pc' = "returned"
    /\ UNCHANGED <<files, photos, key, url, values, employees, masterData,
                   step, filterVars, endpoint, reqHeader, reqQuery, apiSecret,
                   calls, listing, sheet, clientVars>>

NextServer ==
    \/ ValidateSecretKey
    \/ IssueListFiles
    \/ ListFilesResolves
    \/ ListFilesRejects
    \/ IssueValuesGet
    \/ ValuesGetResolves
    \/ ValuesGetRejects
    \/ Respond

SpecServer == InitServer /\ [][NextServer]_vars

-----------------------------------------------------------------------------
(* Properties of the request handlers *)

\* The secret the request supplies: the header, or the query parameter when
\* the request carries no such header.
Supplied == IF reqHeader = Undef THEN reqQuery ELSE reqHeader

SecretDiffers == Supplied.t # apiSecret.t \/ Supplied.v # apiSecret.v

\* C1: when the supplied secret differs from the configured one, the only
\* response of the request is the 401 with the unauthorized payload, sent
\* before the handler returns, and no listing or values call is issued.
MismatchIsUnauthorized ==
    (pc # "idle" /\ SecretDiffers) =>
        /\ calls = <<>>
        /\ listing = "idle"
        /\ sheet = "idle"
        /\ pc \in {"request", "returned"}
        /\ Len(responses) = (IF pc = "returned" THEN 1 ELSE 0)
        /\ \A i \in 1..Len(responses) :
            /\ responses[i].status = 401
            /\ responses[i].body
                = [error_code |-> "unauthorized",
                   error_message |-> "Invalid secret key"]

\* A wrong header beside the right query parameter, on the master data
\* endpoint, answered 401.
MismatchIsUnauthorizedWitness ==
    /\ pc = "returned"
    /\ endpoint = "masterData"
    /\ reqHeader = Str(<<"x">>)
    /\ reqQuery = Str(<<"k">>)
    /\ apiSecret = Str(<<"k">>)
    /\ Len(responses) = 1
    /\ responses[1].status = 401

\* A row that is not an array where the transformation reads it.
BadRowRead ==
    /\ sheet = "resolved"
    /\ values.t = "arr"
    /\ IF endpoint = "employee"
       THEN /\ Len(values.v) >= 2
            /\ \/ values.v[1].t # "arr"
               \/ /\ values.v[1].v # <<>>
                  /\ \E i \in 2..Len(values.v) : values.v[i].t # "arr"
       ELSE \E i \in 3..Len(values.v) : values.v[i].t # "arr"

InternalFailure == listing = "rejected" \/ sheet = "rejected" \/ BadRowRead

\* C2: with a matching secret the handler never rejects; once it has
\* returned, its one response is the 500 with the endpoint's error code when
\* a call failed or the transformation threw, and the 200 with the built
\* data otherwise.
FailureIsInternalServerError ==
    /\ pc # "rejected"
    /\ (pc = "returned" /\ ~SecretDiffers) =>
        /\ Len(responses) = 1
        /\ IF InternalFailure
           THEN /\ responses[1].status = 500
                /\ responses[1].body
                    = [error_code |->
                          IF endpoint = "employee" THEN "00001" ELSE "00002",
                       error_message |-> "Internal Server Error"]
           ELSE /\ responses[1].status = 200
                /\ Outcome.kind = "return"
                /\ responses[1].body = Outcome.val
                /\ IF endpoint = "employee"
                   THEN Len(responses[1].body)
                          = (IF Truthy(values) /\ values.v # <<>>
                             THEN Len(values.v) - 1 ELSE 0)
                   ELSE DOMAIN responses[1].body = GroupNames

\* The master data transformation threw on a null row and the handler
\* answered 500 with code 00002.
FailureIsInternalServerErrorWitness ==
    /\ pc = "returned"
    /\ endpoint = "masterData"
    /\ listing = "resolved"
    /\ sheet = "resolved"
    /\ BadRowRead
    /\ responses[1].status = 500
    /\ responses[1].body.error_code = "00002"

\* C10: the values call is issued, and so the rows are transformed, only
\* after the listing has resolved and the lookup has been built from all of
\* it, and the lookup stays as built; when the listing rejects there is one
\* listing call, no values call and no transformation, and the function's
\* promise rejects.
LookupBeforeTransform ==
    /\ listing = "resolved" => photos = FileMap(files)
    /\ (sheet # "idle" \/ Outcome.kind = "return") =>
        /\ listing = "resolved"
        /\ calls[1] = "files.list"
    /\ listing = "rejected" =>
        /\ calls = <<"files.list">>
        /\ sheet = "idle"
        /\ values = Undef
        /\ Outcome.kind = "throw"
        /\ pc \in {"settled", "returned"}

\* An employee row whose photo was resolved against the lookup built from
\* the listing.
LookupBeforeTransformWitness ==
    /\ pc = "returned"
    /\ endpoint = "employee"
    /\ listing = "resolved"
    /\ DOMAIN photos = {<<"a">>}
    /\ employees.kind = "return"
    /\ Len(employees.val) = 1
    /\ employees.val[1]["photo"] = Str(<<"H", "/", "1">>)

-----------------------------------------------------------------------------
(* The client fetch facade: fetchApis and handleResponse *)

Requests == {"employee", "masterData"}

\* A request in flight, rejected (network failure), or fulfilled with a
\* response: its status and what response.json() gives, a parsed body or a
\* rejection when the body is not JSON.
Pending == [state |-> "pending", status |-> 0, json |-> "none", data |-> ""]
Rejected == [state |-> "rejected", status |-> 0, json |-> "none", data |-> ""]
Responses(r) ==
    [state : {"fulfilled"}, status : {200, 204, 401, 404, 500},
     json : {"parsed", "rejected"}, data : {r \o "-1", r \o "-2"}]

\* response.ok
Ok(resp) == resp.status \in 200..299

\* Variant of HandleResponse that does not look at response.ok.
HandleResponseUnchecked(resp) ==
    IF resp.json = "parsed" THEN Return(resp.data) ELSE Throw

\* handleResponse: throws on a response that is not ok (after reading its
\* error body), and when the body cannot be parsed.
HandleResponse(resp) ==
    IF ~Ok(resp) THEN Throw
    ELSE IF resp.json = "parsed" THEN Return(resp.data) ELSE Throw

InitClient ==
    /\ IdleData /\ IdleFilter /\ IdleServer
    /\ step = "client"
    /\ fetches = [r \in Requests |-> Pending]
    /\ cpc = "start"
    /\ parsed = <<>>
    /\ fetched = NotRun

\* Both requests are issued and Promise.all is awaited.
FetchBoth ==
    /\ cpc = "start"
    /\ cpc' = "awaitAll"
    /\ UNCHANGED <<files, photos, key, url, values, employees, masterData,
                   step, filterVars, serverVars, fetches, parsed, fetched>>

\* A request in flight settles, whether or not fetchApis still waits for it.
FetchSettles ==
    /\ cpc # "start"
    /\ \E r \in Requests :
        /\ fetches[r].state = "pending"
        /\ \E o \in {Rejected} \cup Responses(r) :
            fetches' = [fetches EXCEPT ![r] = o]
    /\ UNCHANGED <<files, photos, key, url, values, employees, masterData,
                   step, filterVars, serverVars, cpc, parsed, fetched>>

\* Promise.all rejects with the first rejection: the catch block returns null.
PromiseAllRejects ==
    /\ cpc = "awaitAll"
    /\ \E r \in Requests : fetches[r].state = "rejected"
    /\ fetched' = Return(Null)
    /\ cpc' = "done"
    /\ UNCHANGED <<files, photos, key, url, values, employees, masterData,
                   step, filterVars, serverVars, fetches, parsed>>

\* Promise.all resolves once both requests are fulfilled.
PromiseAllResolves ==
    /\ cpc = "awaitAll"
    /\ \A r \in Requests : fetches[r].state = "fulfilled"
    /\ cpc' = "handleEmployees"
    /\ UNCHANGED <<files, photos, key, url, values, employees, masterData,
                   step, filterVars, serverVars, fetches, parsed, fetched>>

\* await handleResponse(employeesResponse)
HandleEmployees ==
    /\ cpc = "handleEmployees"
    /\ LET out == HandleResponse(fetches["employee"])
       IN  IF out.kind = "return"
           THEN /\ parsed' = <<out.val>>
                /\ cpc' = "handleMasterData"
                /\ UNCHANGED fetched
           ELSE /\ fetched' = Return(Null)
                /\ cpc' = "done"
                /\ UNCHANGED parsed
    /\ UNCHANGED <<files, photos, key, url, values, employees, masterData,
                   step, filterVars, serverVars, fetches>>

\* await handleResponse(masterDataResponse), then the return of the pair
HandleMasterData ==
    /\ cpc = "handleMasterData"
    /\ LET out == HandleResponse(fetches["masterData"])
       IN  IF out.kind = "return"
           THEN fetched' = Return(Arr(<<parsed[1], out.val>>))
           ELSE fetched' = Return(Null)
    /\ cpc' = "done"
    /\ UNCHANGED <<files, photos, key, url, values, employees, masterData,
                   step, filterVars, serverVars, fetches, parsed>>

NextClient ==
    \/ FetchBoth
    \/ FetchSettles
    \/ PromiseAllRejects
    \/ PromiseAllResolves
    \/ HandleEmployees
    \/ HandleMasterData

SpecClient == InitClient /\ [][NextClient]_vars

Succeeded(r) ==
    fetches[r].state = "fulfilled" /\ fetches[r].status \in {200, 204}

\* C3: fetchApis never raises; what it returns is null or the pair of the
\* two parsed bodies, the pair only when both requests were fulfilled with a
\* success response, and null whenever one was rejected or answered 401, 500
\* or another non-success status, in whatever order they settled.
FetchApisAllOrNothing ==
    /\ fetched.kind \in {"none", "return"}
    /\ fetched.kind = "none" <=> cpc # "done"
    /\ fetched.kind = "return" =>
        /\ fetched.val.t \in {"null", "arr"}
        /\ fetched.val.t = "arr" =>
            /\ \A r \in Requests : Succeeded(r)
            /\ fetched.val.v
                = <<fetches["employee"].data, fetches["masterData"].data>>
        /\ (\E r \in Requests : ~Succeeded(r)) => fetched.val.t = "null"

\* The employee request answered 200 with a body, the master data request
\* answered 500: null, not the employees alone.
FetchApisAllOrNothingWitness ==
    /\ cpc = "done"
    /\ fetches["employee"].status = 200
    /\ fetches["employee"].json = "parsed"
    /\ fetches["masterData"].status = 500
    /\ parsed # <<>>
    /\ fetched = Return(Null)

====
